---------------------------- MODULE Spec2Model ----------------------------
(***************************************************************************)
(* A model of github.com/rockstardevs/parser:                              *)
(*   - package ofx: escapeString / isInCharacterRange / writeStartTag /    *)
(*     writeEndTag and the tag-repair loop of NewDocumentFromXML;          *)
(*   - package main: the worker pool that feeds file names to workers.     *)
(*                                                                         *)
(* Strings are sequences of bytes (0..255), as Go strings are.  The clean  *)
(* XML buffer is the sequence of items written to it: one item per call of *)
(* writeStartTag, writeEndTag or cleanXML.WriteString.                     *)
(***************************************************************************)
EXTENDS Integers, Sequences, FiniteSets, TLC

VARIABLES
    \* ---- ofx.NewDocumentFromXML ----
    file,        \* what ioutil.ReadFile finds: <<"missing">> or <<"bytes", content>>
    data,        \* data []byte
    xmlIndex,    \* xmlIndex int
    pc,          \* position in NewDocumentFromXML
    consumed,    \* history: the tokens decoder.RawToken has returned so far
    tagStack,    \* the slots of tagStack written so far (slot k is tagStack[k-1] in Go)
    lastTagIdx,  \* lastTagIdx int
    endMarker,   \* endMarker bool
    cleanXML,    \* cleanXML bytes.Buffer, as the sequence of items written
    closed,      \* history: positions (in consumed) of the start tags whose end tag was written
    retDoc,      \* the returned *Document: <<>> is nil
    retErr,      \* the returned error kind ("nil" while running), or "panic"
    limit,       \* number of tokens the input holds at most
    mode,        \* which inputs the decoder produces: "any" or "balanced"
    \* ---- ofx.escapeString and ofx.isInCharacterRange, called on their own ----
    escIn,       \* the argument s of escapeString
    escOut,      \* its result
    escPc,       \* "idle", "call" or "done"
    rune,        \* the argument r of isInCharacterRange
    inrange,     \* its result
    runePc,      \* "idle", "call" or "done"
    \* ---- the TRNTYPE of the transactions of a statement ----
    trnRaw,      \* the character data of each STMTTRN's TRNTYPE, as read
    trnTypes,    \* Transaction.Type of each Transaction of the Document
    trnErr,      \* the error of xml.Unmarshal
    trnPc,       \* "idle", "call" or "done"
    \* ---- main and processFile ----
    args,        \* flag.Args()
    numWorkers,  \* *numWorkers
    jobsBuffer,  \* *jobsBuffer
    mainPc,      \* position of main
    loopI,       \* i of the loop that starts the workers
    sent,        \* number of file names main has sent
    jobsChan,    \* the buffer of jobsChan: positions in args
    chanClosed,  \* close(jobsChan) was called
    wg,          \* the counter of the WaitGroup
    wpc,         \* position of each processFile goroutine
    wfile,       \* filename of each processFile goroutine (a position in args, 0: none)
    received,    \* history: the workers that received each position of args
    parsed,      \* history: how often NewDocumentFromXML was called for each position
    \* ---- two calls of NewDocumentFromXML on the same file, running together ----
    inv,         \* the local variables of each call: its position, tagStack, lastTagIdx,
                 \* endMarker, cleanXML and what it returned
    inputErr     \* the decoder ends the tokens of the file with a syntax error, not io.EOF

engineVars == <<file, data, xmlIndex, pc, consumed, tagStack, lastTagIdx,
                endMarker, cleanXML, closed, retDoc, retErr, limit, mode>>

escapeVars == <<escIn, escOut, escPc, rune, inrange, runePc>>

schemaVars == <<trnRaw, trnTypes, trnErr, trnPc>>

poolVars == <<args, numWorkers, jobsBuffer, mainPc, loopI, sent, jobsChan, chanClosed,
              wg, wpc, wfile, received, parsed>>

pairVars == <<inv, inputErr>>

vars == <<engineVars, escapeVars, schemaVars, poolVars, pairVars>>

-----------------------------------------------------------------------------
(* Bounds of the model. *)

\* Tokens per input under Spec.
MaxLen == 6
\* Tokens per input under SpecBalanced.
MaxBal == 7
\* Bytes per file under SpecLocate.
MaxData == 6
\* Tokens read after the marker was found under SpecLocate.
LocateToks == 2
\* Bytes per string under SpecEscape.
MaxStr == 3
\* Transactions per statement under SpecSchema.
MaxTrn == 2
\* File names on the command line, and the largest values of the flags
\* num_workers and jobs_buffer_size, under SpecPool.
MaxFiles == 3
MaxWorkers == 1
MaxBuffer == 1

-----------------------------------------------------------------------------
(* Small helpers on sequences and numbers. *)

Last(s) == s[Len(s)]

RECURSIVE Count(_, _)
Count(s, x) ==
    IF s = <<>> THEN 0
    ELSE (IF Head(s) = x THEN 1 ELSE 0) + Count(Tail(s), x)

Range(s) == {s[k] : k \in 1..Len(s)}

\* All sequences over S of length at most n.
RECURSIVE SeqsUpTo(_, _)
SeqsUpTo(S, n) ==
    IF n = 0 THEN {<<>>}
    ELSE LET shorter == SeqsUpTo(S, n - 1)
         IN shorter \cup {Append(s, x) : s \in {t \in shorter : Len(t) = n - 1}, x \in S}

-----------------------------------------------------------------------------
(* unicode/utf8 and strings, as far as escapeString and the loop use them. *)

RuneError == 65533

\* utf8.DecodeRuneInString(s): the first rune of s and its width in bytes.
\* Invalid or short encodings (surrogates and overlong forms included)
\* decode as (RuneError, 1).
DecodeRuneInString(s) ==
    LET n  == Len(s)
        s0 == s[1]
        bad == [r |-> RuneError, width |-> 1]
        cont(b) == b >= 128 /\ b <= 191
        size == IF s0 >= 194 /\ s0 <= 223 THEN 2
                ELSE IF s0 >= 224 /\ s0 <= 239 THEN 3
                ELSE IF s0 >= 240 /\ s0 <= 244 THEN 4
                ELSE 0
        lo == IF s0 = 224 THEN 160 ELSE IF s0 = 240 THEN 144 ELSE 128
        hi == IF s0 = 237 THEN 159 ELSE IF s0 = 244 THEN 143 ELSE 191
    IN  IF n = 0 THEN [r |-> RuneError, width |-> 0]
        ELSE IF s0 < 128 THEN [r |-> s0, width |-> 1]
        ELSE IF size = 0 \/ n < size THEN bad
        ELSE IF s[2] < lo \/ s[2] > hi THEN bad
        ELSE IF size = 2 THEN [r |-> (s0 - 192) * 64 + (s[2] - 128), width |-> 2]
        ELSE IF ~cont(s[3]) THEN bad
        ELSE IF size = 3
             THEN [r |-> (s0 - 224) * 4096 + (s[2] - 128) * 64 + (s[3] - 128),
                   width |-> 3]
        ELSE IF ~cont(s[4]) THEN bad
        ELSE [r |-> (s0 - 240) * 262144 + (s[2] - 128) * 4096
                    + (s[3] - 128) * 64 + (s[4] - 128),
              width |-> 4]

\* The ASCII white space strings.TrimSpace removes (\t \n \v \f \r and space).
IsSpace(b) == b \in {9, 10, 11, 12, 13, 32}

RECURSIVE TrimLeft(_)
TrimLeft(s) ==
    IF s # <<>> /\ IsSpace(Head(s)) THEN TrimLeft(Tail(s)) ELSE s

RECURSIVE TrimRight(_)
TrimRight(s) ==
    IF s # <<>> /\ IsSpace(Last(s)) THEN TrimRight(SubSeq(s, 1, Len(s) - 1)) ELSE s

\* strings.TrimSpace on a string whose white space is ASCII.
TrimSpace(s) == TrimRight(TrimLeft(s))

\* A variant of Index that gives the length of d when sep does not occur.
IndexOrLen(d, sep) ==
    LET hits == {k \in 0..(Len(d) - Len(sep)) : SubSeq(d, k + 1, k + Len(sep)) = sep}
    IN  IF hits = {} THEN Len(d) ELSE CHOOSE k \in hits : \A j \in hits : k <= j

\* bytes.Index(d, sep): the 0-based offset of the first occurrence, or -1.
Index(d, sep) ==
    LET hits == {k \in 0..(Len(d) - Len(sep)) : SubSeq(d, k + 1, k + Len(sep)) = sep}
    IN  IF hits = {} THEN -1 ELSE CHOOSE k \in hits : \A j \in hits : k <= j

-----------------------------------------------------------------------------
(* The escaper. *)

esc_quot == <<38, 35, 51, 52, 59>>      \* "&#34;"
esc_apos == <<38, 35, 51, 57, 59>>      \* "&#39;"
esc_amp  == <<38, 97, 109, 112, 59>>    \* "&amp;"
esc_lt   == <<38, 108, 116, 59>>        \* "&lt;"
esc_gt   == <<38, 103, 116, 59>>        \* "&gt;"
esc_tab  == <<38, 35, 120, 57, 59>>     \* "&#x9;"
esc_nl   == <<38, 35, 120, 65, 59>>     \* "&#xA;"
esc_cr   == <<38, 35, 120, 68, 59>>     \* "&#xD;"
esc_fffd == <<239, 191, 189>>           \* U+FFFD in UTF-8

\* isInCharacterRange(r): 0xDF77 = 57207, 0xE000 = 57344, 0xFFFD = 65533,
\* 0x10000 = 65536, 0x10FFFF = 1114111.
isInCharacterRange(r) ==
    \/ r = 9
    \/ r = 10
    \/ r = 13
    \/ r >= 32 /\ r <= 57207
    \/ r >= 57344 /\ r <= 65533
    \/ r >= 65536 /\ r <= 1114111

\* A variant of EscapeFor that writes the quote reference for an apostrophe.
EscapeForApos(r, width) ==
    CASE r = 34 -> esc_quot
      [] r = 39 -> esc_quot
      [] r = 38 -> esc_amp
      [] r = 60 -> esc_lt
      [] r = 62 -> esc_gt
      [] r = 9  -> esc_tab
      [] r = 10 -> esc_nl
      [] r = 13 -> esc_cr
      [] OTHER  -> IF ~isInCharacterRange(r) \/ (r = RuneError /\ width = 1)
                   THEN esc_fffd ELSE <<>>

\* The switch of escapeString: the bytes written in place of rune r, or <<>>
\* when r is copied unchanged (the "continue" of the default case).
EscapeFor(r, width) ==
    CASE r = 34 -> esc_quot
      [] r = 39 -> esc_apos
      [] r = 38 -> esc_amp
      [] r = 60 -> esc_lt
      [] r = 62 -> esc_gt
      [] r = 9  -> esc_tab
      [] r = 10 -> esc_nl
      [] r = 13 -> esc_cr
      [] OTHER  -> IF ~isInCharacterRange(r) \/ (r = RuneError /\ width = 1)
                   THEN esc_fffd ELSE <<>>

\* The for loop of escapeString; i and last are the byte offsets of the code.
RECURSIVE escapeLoop(_, _, _, _)
escapeLoop(s, i, last, result) ==
    IF i >= Len(s) THEN result \o SubSeq(s, last + 1, Len(s))
    ELSE LET d   == DecodeRuneInString(SubSeq(s, i + 1, Len(s)))
             i2  == i + d.width
             esc == EscapeFor(d.r, d.width)
         IN  IF esc = <<>> THEN escapeLoop(s, i2, last, result)
             ELSE escapeLoop(s, i2, i2,
                             result \o SubSeq(s, last + 1, i2 - d.width) \o esc)

escapeString(s) == escapeLoop(s, 0, 0, <<>>)

-----------------------------------------------------------------------------
(* Tokens of encoding/xml and the items written to the clean buffer. *)

NoBytes == <<>>

\* xml.StartElement{Name{Space, Local}, Attr}, xml.EndElement{Name} and
\* xml.CharData, as tuples headed by the kind of token.
StartToken(n, sp, at) == <<"start", n, sp, at>>
EndToken(n) == <<"end", n>>
TextToken(d) == <<"text", d>>

Kind(t)  == t[1]
Name(t)  == t[2]
Space(t) == t[3]
Attrs(t) == t[4]
Data(t)  == t[2]

\* <OFX>: what RawToken returns first, the input starting at the marker.
OFXStart == StartToken("OFX", NoBytes, <<>>)

\* The marker the source locator looks for: "<OFX>".
Marker == <<60, 79, 70, 88, 62>>

\* <n:B k="&lt;" ="x">: a start tag with a name space prefix, an attribute
\* whose value needs escaping and an attribute without a local name.
BStart ==
    StartToken("B", <<110>>,
               << <<"k", <<60>>>>, <<"", <<120>>>> >>)

StartTokens == {OFXStart, StartToken("A", NoBytes, <<>>), BStart}
EndTokens   == {EndToken(n) : n \in {"OFX", "A", "B"}}
\* " " (blank) and " x&" (needs trimming and escaping).
TextTokens  == {TextToken(<<32>>), TextToken(<<32, 120, 38>>)}
Tokens == StartTokens \cup EndTokens \cup TextTokens

RECURSIVE EscapeAttrs(_)
EscapeAttrs(at) ==
    IF at = <<>> THEN <<>>
    ELSE (IF Head(at)[1] = "" THEN <<>>
          ELSE << <<Head(at)[1], escapeString(Head(at)[2])>> >>)
         \o EscapeAttrs(Tail(at))

\* A variant of writeStartTag that does not write the name space.
writeStartTagNoSpace(e) == <<"start", Name(e), NoBytes, EscapeAttrs(Attrs(e))>>

\* writeStartTag(e, buff): the item appended for "<name xmlns=... attrs>".
writeStartTag(e) ==
    <<"start", Name(e),
      IF Space(e) # NoBytes THEN escapeString(Space(e)) ELSE NoBytes,
      EscapeAttrs(Attrs(e))>>

\* writeEndTag(name, buff): the item appended for "</name>".
writeEndTag(n) == <<"end", n>>

\* cleanXML.WriteString(cleanData): the item appended for character data.
writeText(d) == <<"text", d>>

-----------------------------------------------------------------------------
(* The tag stack. *)

\* make([]*xml.StartElement, 1000)
StackCap == 1000

\* A stack entry is a pointer to the token read: its position in the input.
\* The name it points to:
NameAt(p) == Name(consumed[p])

\* A variant of StackPut that appends (tagStack = append(tagStack, e)) instead
\* of storing at the index.
StackPutAppend(stack, idx, e) == Append(stack, e)

\* tagStack[idx] = e, for an index within the slots written so far or next to them.
StackPut(stack, idx, e) ==
    IF idx + 1 <= Len(stack) THEN [stack EXCEPT ![idx + 1] = e] ELSE Append(stack, e)

\* The open elements, bottom to top: tagStack[0..lastTagIdx].
OpenStack == SubSeq(tagStack, 1, lastTagIdx + 1)

\* The condition under which a start tag first closes the previous tag.
ShouldCloseBeforeStart(marker, idx) == marker /\ idx > 0

\* A variant of CloseUntilMatch that forgets to pop the matching tag.
RECURSIVE CloseUntilMatchNoPop(_, _, _, _)
CloseUntilMatchNoPop(stack, idx, n, marker) ==
    IF ~(idx > -1) THEN [idx |-> idx, popped |-> <<>>, marker |-> marker]
    ELSE LET lastTag == stack[idx + 1]
         IN  IF NameAt(lastTag) = n
             THEN [idx |-> idx, popped |-> <<lastTag>>, marker |-> FALSE]
             ELSE LET rest == CloseUntilMatchNoPop(stack, idx - 1, n, marker)
                  IN  [rest EXCEPT !.popped = <<lastTag>> \o rest.popped]

\* A variant of CloseUntilMatch without the break: it closes every open tag.
RECURSIVE CloseUntilMatchNoBreak(_, _, _, _)
CloseUntilMatchNoBreak(stack, idx, n, marker) ==
    IF ~(idx > -1) THEN [idx |-> idx, popped |-> <<>>, marker |-> marker]
    ELSE LET lastTag == stack[idx + 1]
             rest == CloseUntilMatchNoBreak(stack, idx - 1, n,
                         IF NameAt(lastTag) = n THEN FALSE ELSE marker)
         IN  [rest EXCEPT !.popped = <<lastTag>> \o rest.popped]

\* A variant of CloseUntilMatch that leaves the end marker set on a match.
RECURSIVE CloseUntilMatchKeepMarker(_, _, _, _)
CloseUntilMatchKeepMarker(stack, idx, n, marker) ==
    IF ~(idx > -1) THEN [idx |-> idx, popped |-> <<>>, marker |-> marker]
    ELSE LET lastTag == stack[idx + 1]
         IN  IF NameAt(lastTag) = n
             THEN [idx |-> idx - 1, popped |-> <<lastTag>>, marker |-> marker]
             ELSE LET rest == CloseUntilMatchKeepMarker(stack, idx - 1, n, marker)
                  IN  [rest EXCEPT !.popped = <<lastTag>> \o rest.popped]

\* The loop of the EndElement case: pop and close tags until one named n was
\* closed or the stack is empty.  Gives the new lastTagIdx, the entries
\* closed (in order) and the new endMarker.
RECURSIVE CloseUntilMatch(_, _, _, _)
CloseUntilMatch(stack, idx, n, marker) ==
    IF ~(idx > -1) THEN [idx |-> idx, popped |-> <<>>, marker |-> marker]
    ELSE LET lastTag == stack[idx + 1]
         IN  IF NameAt(lastTag) = n
             THEN [idx |-> idx - 1, popped |-> <<lastTag>>, marker |-> FALSE]
             ELSE LET rest == CloseUntilMatch(stack, idx - 1, n, marker)
                  IN  [rest EXCEPT !.popped = <<lastTag>> \o rest.popped]

RECURSIVE EndTagsOf(_)
EndTagsOf(entries) ==
    IF entries = <<>> THEN <<>>
    ELSE <<writeEndTag(NameAt(Head(entries)))>> \o EndTagsOf(Tail(entries))

-----------------------------------------------------------------------------
(* xml.Unmarshal(cleanXML.Bytes(), document), as far as its outcome goes:  *)
(* the strict decoder reads the first element to its end tag and fails on  *)
(* a mismatched end tag or on the end of the buffer.                       *)

RECURSIVE StrictParse(_, _, _)
StrictParse(buf, k, open) ==
    IF k > Len(buf) THEN "schema"
    ELSE LET it == buf[k]
         IN  IF Kind(it) = "start" THEN StrictParse(buf, k + 1, Append(open, Name(it)))
             ELSE IF Kind(it) = "text" THEN StrictParse(buf, k + 1, open)
             ELSE IF open = <<>> \/ Last(open) # Name(it) THEN "schema"
             ELSE IF Len(open) = 1 THEN "nil"
             ELSE StrictParse(buf, k + 1, SubSeq(open, 1, Len(open) - 1))

UnmarshalErr(buf) ==
    IF buf # <<>> /\ Kind(buf[1]) = "start" /\ Name(buf[1]) = "OFX"
    THEN StrictParse(buf, 1, <<>>)
    ELSE "schema"

\* The *Document returned on success.
TheDocument == << [XMLName |-> "OFX"] >>

-----------------------------------------------------------------------------
(* What the decoder may return next. *)

\* The element names the input has open (when its end tags match so far).
RECURSIVE InputOpen(_)
InputOpen(toks) ==
    IF toks = <<>> THEN <<>>
    ELSE LET before == InputOpen(SubSeq(toks, 1, Len(toks) - 1))
             t == Last(toks)
         IN  IF Kind(t) = "start" THEN Append(before, Name(t))
             ELSE IF Kind(t) = "end" /\ before # <<>>
                  THEN SubSeq(before, 1, Len(before) - 1)
             ELSE before

\* The input begins with the marker, so its first token is <OFX>.  In mode
\* "balanced" every end tag is the one matching the innermost open element.
CanRead(tok) ==
    /\ pc = "loop"
    /\ Len(consumed) < limit
    /\ consumed = <<>> => tok = OFXStart
    /\ (mode = "balanced" /\ Kind(tok) = "end") =>
          LET open == InputOpen(consumed)
          IN  open # <<>> /\ Last(open) = Name(tok)

-----------------------------------------------------------------------------
(* NewDocumentFromXML *)

IdleEscape ==
    /\ escIn = <<>>
    /\ escOut = <<>>
    /\ escPc = "idle"
    /\ rune = 0
    /\ inrange = FALSE
    /\ runePc = "idle"

IdleSchema ==
    /\ trnRaw = <<>>
    /\ trnTypes = <<>>
    /\ trnErr = "nil"
    /\ trnPc = "idle"

IdlePool ==
    /\ args = <<>>
    /\ numWorkers = 0
    /\ jobsBuffer = 0
    /\ mainPc = "idle"
    /\ loopI = 0
    /\ sent = 0
    /\ jobsChan = <<>>
    /\ chanClosed = FALSE
    /\ wg = 0
    /\ wpc = <<>>
    /\ wfile = <<>>
    /\ received = <<>>
    /\ parsed = <<>>

IdlePair ==
    /\ inv = <<>>
    /\ inputErr = FALSE

IdleEngine ==
    /\ file = <<"missing">>
    /\ data = <<>>
    /\ xmlIndex = 0
    /\ pc = "idle"
    /\ consumed = <<>>
    /\ tagStack = <<>>
    /\ lastTagIdx = -1
    /\ endMarker = FALSE
    /\ cleanXML = <<>>
    /\ closed = <<>>
    /\ retDoc = <<>>
    /\ retErr = "nil"
    /\ limit = 0
    /\ mode = "any"

InitEngine(files, lim, md) ==
    /\ IdleEscape
    /\ IdleSchema
    /\ IdlePool
    /\ IdlePair
    /\ file \in files
    /\ data = <<>>
    /\ xmlIndex = 0
    /\ pc = "read"
    /\ consumed = <<>>
    /\ tagStack = <<>>
    /\ lastTagIdx = -1
    /\ endMarker = FALSE
    /\ cleanXML = <<>>
    /\ closed = <<>>
    /\ retDoc = <<>>
    /\ retErr = "nil"
    /\ limit = lim
    /\ mode = md

Return(doc, e) ==
    /\ pc' = "returned"
    /\ retDoc' = doc
    /\ retErr' = e

\* data, err = ioutil.ReadFile(filename)
ReadFile ==
    /\ pc = "read"
    /\ IF file[1] = "missing"
       THEN /\ Return(<<>>, "io")
            /\ UNCHANGED data
       ELSE /\ data' = file[2]
            /\ pc' = "locate"
            /\ UNCHANGED <<retDoc, retErr>>
    /\ UNCHANGED <<file, xmlIndex, consumed, tagStack, lastTagIdx, endMarker,
                   cleanXML, closed, limit, mode>>
    /\ UNCHANGED <<escapeVars, schemaVars, poolVars, pairVars>>

\* xmlIndex = bytes.Index(data, "<OFX>"); the decoder is started on data[xmlIndex:]
Locate ==
    /\ pc = "locate"
    /\ xmlIndex' = Index(data, Marker)
    /\ IF xmlIndex' = -1
       THEN Return(<<>>, "format")
       ELSE /\ pc' = "loop"
            /\ UNCHANGED <<retDoc, retErr>>
    /\ UNCHANGED <<file, data, consumed, tagStack, lastTagIdx, endMarker,
                   cleanXML, closed, limit, mode>>
    /\ UNCHANGED <<escapeVars, schemaVars, poolVars, pairVars>>

\* case xml.StartElement
StartElement(tok) ==
    /\ Kind(tok) = "start"
    /\ CanRead(tok)
    /\ LET close == ShouldCloseBeforeStart(endMarker, lastTagIdx)
           top   == tagStack[lastTagIdx + 1]
           buf1  == IF close THEN Append(cleanXML, writeEndTag(NameAt(top)))
                    ELSE cleanXML
           idx1  == IF close THEN lastTagIdx - 1 ELSE lastTagIdx
           idx2  == idx1 + 1
       IN  /\ consumed' = Append(consumed, tok)
           /\ closed' = IF close THEN Append(closed, top) ELSE closed
           /\ endMarker' = IF close THEN FALSE ELSE endMarker
           /\ lastTagIdx' = idx2
           /\ IF idx2 >= StackCap
              THEN \* tagStack[lastTagIdx] = &t: index out of range
                   /\ Return(<<>>, "panic")
                   /\ cleanXML' = buf1
                   /\ UNCHANGED tagStack
              ELSE /\ tagStack' = StackPut(tagStack, idx2, Len(consumed) + 1)
                   /\ cleanXML' = Append(buf1, writeStartTag(tok))
                   /\ UNCHANGED <<pc, retDoc, retErr>>
    /\ UNCHANGED <<file, data, xmlIndex, limit, mode>>
    /\ UNCHANGED <<escapeVars, schemaVars, poolVars, pairVars>>

\* A variant of CharData without the "continue" for blank character data.
CharDataNoSkip(tok) ==
    /\ Kind(tok) = "text"
    /\ CanRead(tok)
    /\ consumed' = Append(consumed, tok)
    /\ cleanXML' = Append(cleanXML, writeText(escapeString(TrimSpace(Data(tok)))))
    /\ endMarker' = TRUE
    /\ UNCHANGED <<file, data, xmlIndex, pc, tagStack, lastTagIdx, closed,
                   retDoc, retErr, limit, mode>>
    /\ UNCHANGED <<escapeVars, schemaVars, poolVars, pairVars>>

\* case xml.CharData
CharData(tok) ==
    /\ Kind(tok) = "text"
    /\ CanRead(tok)
    /\ LET cleanData == escapeString(TrimSpace(Data(tok)))
       IN  /\ consumed' = Append(consumed, tok)
           /\ IF cleanData = <<>>
              THEN UNCHANGED <<cleanXML, endMarker>>
              ELSE /\ cleanXML' = Append(cleanXML, writeText(cleanData))
                   /\ endMarker' = TRUE
    /\ UNCHANGED <<file, data, xmlIndex, pc, tagStack, lastTagIdx, closed,
                   retDoc, retErr, limit, mode>>
    /\ UNCHANGED <<escapeVars, schemaVars, poolVars, pairVars>>

\* case xml.EndElement
EndElement(tok) ==
    /\ Kind(tok) = "end"
    /\ CanRead(tok)
    /\ LET r == CloseUntilMatch(tagStack, lastTagIdx, Name(tok), endMarker)
       IN  /\ consumed' = Append(consumed, tok)
           /\ cleanXML' = cleanXML \o EndTagsOf(r.popped)
           /\ closed' = closed \o r.popped
           /\ lastTagIdx' = r.idx
           /\ endMarker' = r.marker
    /\ UNCHANGED <<file, data, xmlIndex, pc, tagStack, retDoc, retErr, limit, mode>>
    /\ UNCHANGED <<escapeVars, schemaVars, poolVars, pairVars>>

\* decoder.RawToken() returns io.EOF: break
EndOfInput ==
    /\ pc = "loop"
    /\ consumed # <<>>
    /\ pc' = "unmarshal"
    /\ UNCHANGED <<file, data, xmlIndex, consumed, tagStack, lastTagIdx, endMarker,
                   cleanXML, closed, retDoc, retErr, limit, mode>>
    /\ UNCHANGED <<escapeVars, schemaVars, poolVars, pairVars>>

\* decoder.RawToken() returns another error: return nil, err
TokenError ==
    /\ pc = "loop"
    /\ consumed # <<>>
    /\ Return(<<>>, "token")
    /\ UNCHANGED <<file, data, xmlIndex, consumed, tagStack, lastTagIdx, endMarker,
                   cleanXML, closed, limit, mode>>
    /\ UNCHANGED <<escapeVars, schemaVars, poolVars, pairVars>>

\* err = xml.Unmarshal(cleanXML.Bytes(), document)
Unmarshal ==
    /\ pc = "unmarshal"
    /\ LET e == UnmarshalErr(cleanXML)
       IN  IF e # "nil" THEN Return(<<>>, e) ELSE Return(TheDocument, "nil")
    /\ UNCHANGED <<file, data, xmlIndex, consumed, tagStack, lastTagIdx, endMarker,
                   cleanXML, closed, limit, mode>>
    /\ UNCHANGED <<escapeVars, schemaVars, poolVars, pairVars>>

ReadToken ==
    \E tok \in Tokens : StartElement(tok) \/ CharData(tok) \/ EndElement(tok)

EngineNext ==
    \/ ReadFile
    \/ Locate
    \/ ReadToken
    \/ EndOfInput
    \/ TokenError
    \/ Unmarshal

\* "h<OFX>" (a preamble before the marker), "h" (no marker) and no file.
SampleFiles ==
    { <<"bytes", <<104>> \o Marker>>, <<"bytes", <<104>>>>, <<"missing">> }

Init == InitEngine(SampleFiles, MaxLen, "any")

Next == EngineNext

\* The repair loop on every token sequence of at most MaxLen tokens.
Spec == Init /\ [][Next]_vars

InitBalanced == InitEngine({<<"bytes", Marker>>}, MaxBal, "balanced")

\* The repair loop on the inputs whose end tags all match.
SpecBalanced == InitBalanced /\ [][Next]_vars

InitDeep == InitEngine({<<"bytes", Marker>>}, StackCap + 1, "any")

NextDeep ==
    \/ ReadFile
    \/ Locate
    \/ StartElement(OFXStart)

\* The repair loop on <OFX><OFX><OFX>...: StackCap + 1 nested start tags.
SpecDeep == InitDeep /\ [][NextDeep]_vars

\* The bytes of the marker.
LocateBytes == {60, 79, 70, 88, 62}

InitLocate ==
    InitEngine({<<"bytes", d>> : d \in SeqsUpTo(LocateBytes, MaxData)} \cup {<<"missing">>},
               LocateToks, "any")

\* NewDocumentFromXML on every file of at most MaxData bytes of the marker's
\* alphabet, reading at most LocateToks tokens.
SpecLocate == InitLocate /\ [][Next]_vars

-----------------------------------------------------------------------------
(* Properties of the repair loop. *)

\* The for loop was left by the break at io.EOF.
LoopFinished ==
    \/ pc = "unmarshal"
    \/ pc = "returned" /\ retErr \in {"nil", "schema"}

\* Positions of the start tags pushed on the stack.
Pushed == {k \in 1..Len(consumed) : Kind(consumed[k]) = "start"}

OpenPositions == Range(OpenStack)

EndItems(buf) == {k \in 1..Len(buf) : Kind(buf[k]) = "end"}

NonBlank(tok) == Kind(tok) = "text" /\ TrimSpace(Data(tok)) # <<>>

C2_LeafClosedBeforeSibling ==
    [][ ( /\ pc = "loop"
          /\ Len(consumed) >= 2
          /\ Kind(consumed[Len(consumed) - 1]) = "start"
          /\ NonBlank(Last(consumed))
          /\ Len(consumed') = Len(consumed) + 1
          /\ Kind(Last(consumed')) = "start" )
        => ( /\ cleanXML' = cleanXML \o
                    << writeEndTag(Name(consumed[Len(consumed) - 1])),
                       writeStartTag(Last(consumed')) >>
             /\ closed' = Append(closed, Len(consumed) - 1)
             /\ lastTagIdx' = lastTagIdx ) ]_vars

\* The input ends with: the start tag of P at position q, n leaves (start
\* tag, non-blank text) named otherwise than P, and the end tag of P.
LeavesThenEnd(q, n) ==
    /\ Len(consumed) = q + 2 * n + 1
    /\ Kind(consumed[q]) = "start"
    /\ \A k \in 1..n :
          /\ Kind(consumed[q + 2 * k - 1]) = "start"
          /\ Name(consumed[q + 2 * k - 1]) # Name(consumed[q])
          /\ NonBlank(consumed[q + 2 * k])
    /\ Last(consumed) = EndToken(Name(consumed[q]))

RECURSIVE LeavesRepaired(_, _)
LeavesRepaired(q, n) ==
    IF n = 0 THEN <<>>
    ELSE LeavesRepaired(q, n - 1) \o
         << writeStartTag(consumed[q + 2 * n - 1]),
            writeText(escapeString(TrimSpace(Data(consumed[q + 2 * n])))),
            writeEndTag(Name(consumed[q + 2 * n - 1])) >>

\* C3: after n leaves without closing tags and the end tag of their parent,
\* the buffer ends with the parent's opening tag, each leaf followed by its
\* own closing tag, in order, and then the parent's closing tag.
C3_LeavesClosedBeforeAncestor ==
    \A q \in 1..Len(consumed) : \A n \in 1..Len(consumed) :
        LeavesThenEnd(q, n) =>
            /\ Len(cleanXML) >= 3 * n + 2
            /\ SubSeq(cleanXML, Len(cleanXML) - 3 * n - 1, Len(cleanXML)) =
                   <<writeStartTag(consumed[q])>> \o LeavesRepaired(q, n)
                       \o <<writeEndTag(Name(consumed[q]))>>

\* The start and end tags of a token or item sequence, by kind and name.
RECURSIVE TagShape(_)
TagShape(s) ==
    IF s = <<>> THEN <<>>
    ELSE (IF Kind(Head(s)) \in {"start", "end"}
          THEN << <<Kind(Head(s)), Name(Head(s))>> >> ELSE <<>>)
         \o TagShape(Tail(s))

\* The open element names of the input, or <<"!">> once an end tag did not
\* match the innermost open element.
RECURSIVE Nesting(_)
Nesting(toks) ==
    IF toks = <<>> THEN <<>>
    ELSE LET before == Nesting(SubSeq(toks, 1, Len(toks) - 1))
             t == Last(toks)
         IN  IF before = <<"!">> THEN before
             ELSE IF Kind(t) = "start" THEN Append(before, Name(t))
             ELSE IF Kind(t) = "text" THEN before
             ELSE IF before # <<>> /\ Last(before) = Name(t)
                  THEN SubSeq(before, 1, Len(before) - 1)
             ELSE <<"!">>

\* Every start tag of the input has its explicit, correctly nested end tag.
Balanced(toks) == Nesting(toks) = <<>>

\* No start tag comes after non-blank character data with only character
\* data in between.
NoStartAfterText(toks) ==
    \A j \in 1..Len(toks) : \A k \in (j + 1)..Len(toks) :
        ~ ( /\ NonBlank(toks[j])
            /\ Kind(toks[k]) = "start"
            /\ \A m \in (j + 1)..(k - 1) : Kind(toks[m]) = "text" )

\* C4 as stated: for a balanced input, whatever the placement of character
\* data, the tags written are exactly the tags of the input.
C4_BalancedTagsUnchanged ==
    (LoopFinished /\ Balanced(consumed)) => TagShape(cleanXML) = TagShape(consumed)

\* C4, amended: for a balanced input in which no start tag follows non-blank
\* character data (only character data in between), the tags written are
\* exactly the tags of the input.
C4_BalancedLeafTextTagsUnchanged ==
    (LoopFinished /\ Balanced(consumed) /\ NoStartAfterText(consumed))
        => TagShape(cleanXML) = TagShape(consumed)

\* A balanced input with nested elements and text in a leaf was repaired.
C4_Witness ==
    /\ LoopFinished
    /\ Balanced(consumed)
    /\ NoStartAfterText(consumed)
    /\ Len(consumed) >= 6
    /\ \E k \in 1..Len(consumed) : NonBlank(consumed[k])
    /\ \E k \in 1..Len(consumed) : Kind(consumed[k]) = "start" /\ Name(consumed[k]) # "OFX"

\* C5: every push succeeds and the stack index stays within the backing
\* storage, at any nesting depth.
C5_PushNeverOverflows ==
    /\ retErr # "panic"
    /\ lastTagIdx < StackCap

\* The file holds the marker "<OFX>".
HasMarker(d) ==
    \E k \in 0..(Len(d) - 5) : \A j \in 1..5 : d[k + j] = Marker[j]

\* C6: for a file without the marker, NewDocumentFromXML returns a nil
\* Document and the format error, and no token is read: the tag stack, the
\* end marker and the clean buffer are as they were declared.
C6_NoMarkerFailsBeforeTokens ==
    (pc \notin {"read", "locate"} /\ file[1] = "bytes" /\ ~HasMarker(file[2])) =>
        /\ pc = "returned"
        /\ retErr = "format"
        /\ retDoc = <<>>
        /\ consumed = <<>>
        /\ tagStack = <<>>
        /\ lastTagIdx = -1
        /\ endMarker = FALSE
        /\ cleanXML = <<>>

\* A file of at least the marker's length without the marker was rejected.
C6_Witness ==
    /\ pc = "returned"
    /\ retErr = "format"
    /\ Len(data) >= 5
    /\ ~HasMarker(data)

-----------------------------------------------------------------------------
(* escapeString and isInCharacterRange, called on their own. *)

\* The bytes of the strings escaped: the characters escapeString names,
\* 'a', '#', ';', the two bytes of U+00E9, the three bytes of U+FFFD, a
\* control character, a byte that is never valid and the three bytes that
\* would encode the surrogate U+D800.
EscapeBytes ==
    {34, 39, 38, 60, 62, 9, 10, 13, 97, 35, 59, 195, 169, 239, 191, 189, 1, 255,
     237, 160, 128}

\* The rune values isInCharacterRange is called with: around every end of
\* the ranges of the Char production, and around 0xDF77.
RuneSamples ==
    (-2..40) \cup (55290..55300) \cup (57200..57215) \cup (57338..57350)
        \cup (65530..65540) \cup (1114105..1114115)

InitEscape ==
    /\ IdleEngine
    /\ IdleSchema
    /\ IdlePool
    /\ IdlePair
    /\ escIn \in SeqsUpTo(EscapeBytes, MaxStr)
    /\ escOut = <<>>
    /\ escPc = "call"
    /\ rune = 0
    /\ inrange = FALSE
    /\ runePc = "idle"

\* escapeString(s)
EscapeCall ==
    /\ escPc = "call"
    /\ escOut' = escapeString(escIn)
    /\ escPc' = "done"
    /\ UNCHANGED <<escIn, rune, inrange, runePc, engineVars, schemaVars, poolVars, pairVars>>

\* escapeString on every string of at most MaxStr bytes of EscapeBytes.
SpecEscape == InitEscape /\ [][EscapeCall]_vars

InitRange ==
    /\ IdleEngine
    /\ IdleSchema
    /\ IdlePool
    /\ IdlePair
    /\ escIn = <<>>
    /\ escOut = <<>>
    /\ escPc = "idle"
    /\ rune \in RuneSamples
    /\ inrange = FALSE
    /\ runePc = "call"

\* isInCharacterRange(r)
RangeCall ==
    /\ runePc = "call"
    /\ inrange' = isInCharacterRange(rune)
    /\ runePc' = "done"
    /\ UNCHANGED <<escIn, escOut, escPc, rune, engineVars, schemaVars, poolVars, pairVars>>

\* isInCharacterRange on every rune of RuneSamples.
SpecRange == InitRange /\ [][RangeCall]_vars

\* The Char production of XML 1.0: #x9 | #xA | #xD | [#x20-#xD7FF] |
\* [#xE000-#xFFFD] | [#x10000-#x10FFFF].
XMLChar(r) ==
    \/ r \in {9, 10, 13}
    \/ r >= 32 /\ r <= 55295
    \/ r >= 57344 /\ r <= 65533
    \/ r >= 65536 /\ r <= 1114111

\* C7: isInCharacterRange(r) is true exactly for the code points of the
\* Char production.
C7_RangeIsCharProduction ==
    runePc = "done" => (inrange <=> XMLChar(rune))

\* The runes of a string and their widths, as escapeString decodes them.
RECURSIVE Runes(_)
Runes(s) ==
    IF s = <<>> THEN <<>>
    ELSE LET d == DecodeRuneInString(s)
         IN  <<d>> \o Runes(SubSeq(s, d.width + 1, Len(s)))

\* The text is valid UTF-8 and all its characters are of the Char
\* production: the characters escapeString names and ordinary characters.
OrdinaryText(s) ==
    \A k \in 1..Len(Runes(s)) :
        /\ ~(Runes(s)[k].r = RuneError /\ Runes(s)[k].width = 1)
        /\ XMLChar(Runes(s)[k].r)

\* The code point a sequence of digits denotes in the given base, -1 when
\* there is no digit or a byte is no digit of the base.
DigitValue(b) ==
    IF b >= 48 /\ b <= 57 THEN b - 48
    ELSE IF b >= 65 /\ b <= 70 THEN b - 55
    ELSE IF b >= 97 /\ b <= 102 THEN b - 87
    ELSE 99

RECURSIVE Number(_, _, _)
Number(digits, base, acc) ==
    IF digits = <<>> THEN acc
    ELSE IF DigitValue(Head(digits)) >= base THEN -1
    ELSE Number(Tail(digits), base, acc * base + DigitValue(Head(digits)))

\* The code point of the reference &ref; : the five predefined entities and
\* the decimal and hexadecimal character references; -1 for anything else.
RefValue(ref) ==
    IF ref = <<97, 109, 112>> THEN 38
    ELSE IF ref = <<108, 116>> THEN 60
    ELSE IF ref = <<103, 116>> THEN 62
    ELSE IF ref = <<113, 117, 111, 116>> THEN 34
    ELSE IF ref = <<97, 112, 111, 115>> THEN 39
    ELSE IF Len(ref) >= 3 /\ ref[1] = 35 /\ ref[2] = 120
         THEN Number(SubSeq(ref, 3, Len(ref)), 16, 0)
    ELSE IF Len(ref) >= 2 /\ ref[1] = 35
         THEN Number(SubSeq(ref, 2, Len(ref)), 10, 0)
    ELSE -1

\* The UTF-8 encoding of a code point.
EncodeRune(r) ==
    IF r < 128 THEN <<r>>
    ELSE IF r < 2048 THEN <<192 + (r \div 64), 128 + (r % 64)>>
    ELSE IF r < 65536
         THEN <<224 + (r \div 4096), 128 + ((r \div 64) % 64), 128 + (r % 64)>>
    ELSE <<240 + (r \div 262144), 128 + ((r \div 4096) % 64),
           128 + ((r \div 64) % 64), 128 + (r % 64)>>

\* The character data a conforming parser reads from escaped text: every
\* reference replaced by its character.  <<-1>> marks a "&" that starts no
\* reference.
RECURSIVE Unescape(_)
Unescape(t) ==
    IF t = <<>> THEN <<>>
    ELSE IF Head(t) # 38 THEN <<Head(t)>> \o Unescape(Tail(t))
    ELSE LET semis == {k \in 2..Len(t) : t[k] = 59}
         IN  IF semis = {} THEN <<-1>>
             ELSE LET k  == CHOOSE x \in semis : \A y \in semis : x <= y
                      cp == RefValue(SubSeq(t, 2, k - 1))
                  IN  IF cp < 0 THEN <<-1>>
                      ELSE EncodeRune(cp) \o Unescape(SubSeq(t, k + 1, Len(t)))

References ==
    {esc_quot, esc_apos, esc_amp, esc_lt, esc_gt, esc_tab, esc_nl, esc_cr}

\* No raw <, >, quote, apostrophe, tab, newline or carriage return, and
\* every & starts one of the references escapeString writes.
NoRawSpecials(t) ==
    \A k \in 1..Len(t) :
        /\ t[k] \notin {60, 62, 34, 39, 9, 10, 13}
        /\ t[k] = 38 =>
              \E ref \in References :
                  /\ k + Len(ref) - 1 <= Len(t)
                  /\ SubSeq(t, k, k + Len(ref) - 1) = ref

\* C8: for a text of the named characters and ordinary characters,
\* un-escaping escapeString(text) gives the text back, and the escaped text
\* holds none of the named characters outside the references written.
C8_EscapeRoundTrips ==
    (escPc = "done" /\ OrdinaryText(escIn)) =>
        /\ Unescape(escOut) = escIn
        /\ NoRawSpecials(escOut)

\* A text with an ampersand, an apostrophe and a two-byte character was escaped.
C8_Witness ==
    /\ escPc = "done"
    /\ OrdinaryText(escIn)
    /\ {38, 39} \subseteq Range(escIn)
    /\ Len(escOut) > Len(escIn)

-----------------------------------------------------------------------------
(* The TRNTYPE of a transaction: type TransactionType string, filled by   *)
(* xml.Unmarshal from the character data of the element.                   *)

DEBIT         == <<68, 69, 66, 73, 84>>    \* "DEBIT"
CREDIT        == <<67, 82, 69, 68, 73, 84>>    \* "CREDIT"
INTEREST      == <<73, 78, 84>>    \* "INT"
DIVIDENT      == <<68, 73, 86>>    \* "DIV"
FEE           == <<70, 69, 69>>    \* "FEE"
SERVICECHARGE == <<83, 82, 86, 67, 72, 71>>    \* "SRVCHG"
DEPOSIT       == <<68, 69, 80>>    \* "DEP"
ATM           == <<65, 84, 77>>    \* "ATM"
POS           == <<80, 79, 83>>    \* "POS"
TRANSFER      == <<88, 70, 69, 82>>    \* "XFER"
CHECK         == <<67, 72, 69, 67, 75>>    \* "CHECK"
PAYMENT       == <<80, 65, 89, 77, 69, 78, 84>>    \* "PAYMENT"
CASH          == <<67, 65, 83, 72>>    \* "CASH"
DIRECTDEPOSIT == <<68, 73, 82, 69, 67, 84, 68, 69, 80>>    \* "DIRECTDEP"
DIRECTDEBIT   == <<68, 73, 82, 69, 67, 84, 68, 69, 66, 73, 84>>    \* "DIRECTDEBIT"
REPEATPAYMENT == <<82, 69, 80, 69, 65, 84, 80, 77, 84>>    \* "REPEATPMT"
OTHER_TYPE    == <<79, 84, 72, 69, 82>>    \* "OTHER"

TransactionTypes ==
    { DEBIT, CREDIT, INTEREST, DIVIDENT, FEE, SERVICECHARGE,
      DEPOSIT, ATM, POS, TRANSFER, CHECK, PAYMENT,
      CASH, DIRECTDEPOSIT, DIRECTDEBIT, REPEATPAYMENT, OTHER_TYPE }

\* The TRNTYPE texts of the inputs: the seventeen codes, " DEBIT\n", "FOO",
\* "debit", and <<>> for a STMTTRN without TRNTYPE.
TypeSamples ==
    TransactionTypes \cup
        { <<32, 68, 69, 66, 73, 84, 10>>, <<70, 79, 79>>, <<100, 101, 98, 105, 116>>, <<>> }

\* A variant of TypeField that maps every unrecognized code to OTHER.
TypeFieldOrOther(raw) ==
    LET v == Unescape(escapeString(TrimSpace(raw)))
    IN  IF v \in TransactionTypes THEN v ELSE OTHER_TYPE

\* Transaction.Type for a TRNTYPE element with character data raw: the loop
\* writes escapeString(TrimSpace(raw)) and xml.Unmarshal copies the decoded
\* character data into the string-kinded field.
TypeField(raw) == Unescape(escapeString(TrimSpace(raw)))

InitSchema ==
    /\ IdleEngine
    /\ IdleEscape
    /\ IdlePool
    /\ IdlePair
    /\ trnRaw \in SeqsUpTo(TypeSamples, MaxTrn)
    /\ trnTypes = <<>>
    /\ trnErr = "nil"
    /\ trnPc = "call"

\* xml.Unmarshal, for the Type fields of Transactions []Transaction
UnmarshalTypes ==
    /\ trnPc = "call"
    /\ trnTypes' = [k \in 1..Len(trnRaw) |-> TypeField(trnRaw[k])]
    /\ trnErr' = "nil"
    /\ trnPc' = "done"
    /\ UNCHANGED <<trnRaw, engineVars, escapeVars, poolVars, pairVars>>

\* The Type fields of every statement of at most MaxTrn transactions.
SpecSchema == InitSchema /\ [][UnmarshalTypes]_vars

-----------------------------------------------------------------------------
(* main and processFile: the worker pool. *)

FileNames == {"a.ofx", "b.ofx"}

\* The goroutines main starts: for i := 0; i <= *numWorkers; i++
Workers == 0..numWorkers

InitPool ==
    /\ IdleEngine
    /\ IdleEscape
    /\ IdleSchema
    /\ IdlePair
    /\ args \in SeqsUpTo(FileNames, MaxFiles)
    /\ numWorkers \in 0..MaxWorkers
    /\ jobsBuffer \in 0..MaxBuffer
    /\ mainPc = "go"
    /\ loopI = 0
    /\ sent = 0
    /\ jobsChan = <<>>
    /\ chanClosed = FALSE
    /\ wg = 0
    /\ wpc = [w \in 0..numWorkers |-> "unstarted"]
    /\ wfile = [w \in 0..numWorkers |-> 0]
    /\ received = [k \in 1..Len(args) |-> <<>>]
    /\ parsed = [k \in 1..Len(args) |-> 0]

\* The process is running: main has not returned and nothing has panicked.
Running == mainPc \notin {"idle", "exit", "panic"}

\* A variant of ChanRecv that leaves the value received in the channel.
ChanPeek(ch) == ch

\* The buffer of a channel after a receive.
ChanRecv(ch) == Tail(ch)

\* go processFile(i, jobsChan, &wg)
StartWorker ==
    /\ mainPc = "go"
    /\ loopI <= numWorkers
    /\ wpc' = [wpc EXCEPT ![loopI] = "range"]
    /\ mainPc' = "add"
    /\ UNCHANGED <<args, numWorkers, jobsBuffer, loopI, sent, jobsChan, chanClosed,
                   wg, wfile, received, parsed>>
    /\ UNCHANGED <<engineVars, escapeVars, schemaVars, pairVars>>

\* wg.Add(1); i++
WgAdd ==
    /\ mainPc = "add"
    /\ wg' = wg + 1
    /\ loopI' = loopI + 1
    /\ mainPc' = "go"
    /\ UNCHANGED <<args, numWorkers, jobsBuffer, sent, jobsChan, chanClosed,
                   wpc, wfile, received, parsed>>
    /\ UNCHANGED <<engineVars, escapeVars, schemaVars, pairVars>>

\* i <= *numWorkers is false: the loop that starts the workers ends
WorkersStarted ==
    /\ mainPc = "go"
    /\ loopI > numWorkers
    /\ mainPc' = "send"
    /\ UNCHANGED <<args, numWorkers, jobsBuffer, loopI, sent, jobsChan, chanClosed,
                   wg, wpc, wfile, received, parsed>>
    /\ UNCHANGED <<engineVars, escapeVars, schemaVars, pairVars>>

\* jobsChan <- filename, into the buffer of the channel
SendBuffered ==
    /\ mainPc = "send"
    /\ sent < Len(args)
    /\ Len(jobsChan) < jobsBuffer
    /\ jobsChan' = Append(jobsChan, sent + 1)
    /\ sent' = sent + 1
    /\ UNCHANGED <<args, numWorkers, jobsBuffer, mainPc, loopI, chanClosed,
                   wg, wpc, wfile, received, parsed>>
    /\ UNCHANGED <<engineVars, escapeVars, schemaVars, pairVars>>

\* jobsChan <- filename on an unbuffered channel: handed to a worker that is
\* waiting in its range loop
SendDirect(w) ==
    /\ mainPc = "send"
    /\ sent < Len(args)
    /\ jobsBuffer = 0
    /\ wpc[w] = "range"
    /\ sent' = sent + 1
    /\ wfile' = [wfile EXCEPT ![w] = sent + 1]
    /\ wpc' = [wpc EXCEPT ![w] = "parse"]
    /\ received' = [received EXCEPT ![sent + 1] = Append(@, w)]
    /\ UNCHANGED <<args, numWorkers, jobsBuffer, mainPc, loopI, jobsChan, chanClosed,
                   wg, parsed>>
    /\ UNCHANGED <<engineVars, escapeVars, schemaVars, pairVars>>

\* the range over flag.Args() ends
AllSent ==
    /\ mainPc = "send"
    /\ sent = Len(args)
    /\ mainPc' = "close"
    /\ UNCHANGED <<args, numWorkers, jobsBuffer, loopI, sent, jobsChan, chanClosed,
                   wg, wpc, wfile, received, parsed>>
    /\ UNCHANGED <<engineVars, escapeVars, schemaVars, pairVars>>

\* A variant of CloseChan that goes on to wg.Wait without closing the channel.
CloseForgotten ==
    /\ mainPc = "close"
    /\ mainPc' = "wait"
    /\ UNCHANGED <<args, numWorkers, jobsBuffer, loopI, sent, jobsChan, chanClosed,
                   wg, wpc, wfile, received, parsed>>
    /\ UNCHANGED <<engineVars, escapeVars, schemaVars, pairVars>>

\* close(jobsChan)
CloseChan ==
    /\ mainPc = "close"
    /\ chanClosed' = TRUE
    /\ mainPc' = "wait"
    /\ UNCHANGED <<args, numWorkers, jobsBuffer, loopI, sent, jobsChan,
                   wg, wpc, wfile, received, parsed>>
    /\ UNCHANGED <<engineVars, escapeVars, schemaVars, pairVars>>

\* A variant of WaitReturns that does not block on the counter.
WaitNoBlock ==
    /\ mainPc = "wait"
    /\ mainPc' = "exit"
    /\ UNCHANGED <<args, numWorkers, jobsBuffer, loopI, sent, jobsChan, chanClosed,
                   wg, wpc, wfile, received, parsed>>
    /\ UNCHANGED <<engineVars, escapeVars, schemaVars, pairVars>>

\* wg.Wait() returns; main returns
WaitReturns ==
    /\ mainPc = "wait"
    /\ wg = 0
    /\ mainPc' = "exit"
    /\ UNCHANGED <<args, numWorkers, jobsBuffer, loopI, sent, jobsChan, chanClosed,
                   wg, wpc, wfile, received, parsed>>
    /\ UNCHANGED <<engineVars, escapeVars, schemaVars, pairVars>>

\* for filename := range jobs: a value is received from the buffer
Receive(w) ==
    /\ Running
    /\ wpc[w] = "range"
    /\ jobsChan # <<>>
    /\ wfile' = [wfile EXCEPT ![w] = Head(jobsChan)]
    /\ received' = [received EXCEPT ![Head(jobsChan)] = Append(@, w)]
    /\ jobsChan' = ChanRecv(jobsChan)
    /\ wpc' = [wpc EXCEPT ![w] = "parse"]
    /\ UNCHANGED <<args, numWorkers, jobsBuffer, mainPc, loopI, sent, chanClosed,
                   wg, parsed>>
    /\ UNCHANGED <<engineVars, escapeVars, schemaVars, pairVars>>

\* document, err := ofx.NewDocumentFromXML(filename), and the logging
Parse(w) ==
    /\ Running
    /\ wpc[w] = "parse"
    /\ parsed' = [parsed EXCEPT ![wfile[w]] = @ + 1]
    /\ wfile' = [wfile EXCEPT ![w] = 0]
    /\ wpc' = [wpc EXCEPT ![w] = "range"]
    /\ UNCHANGED <<args, numWorkers, jobsBuffer, mainPc, loopI, sent, jobsChan,
                   chanClosed, wg, received>>
    /\ UNCHANGED <<engineVars, escapeVars, schemaVars, pairVars>>

\* the range loop ends: the channel is closed and drained
RangeEnds(w) ==
    /\ Running
    /\ wpc[w] = "range"
    /\ jobsChan = <<>>
    /\ chanClosed
    /\ wpc' = [wpc EXCEPT ![w] = "deferred"]
    /\ UNCHANGED <<args, numWorkers, jobsBuffer, mainPc, loopI, sent, jobsChan,
                   chanClosed, wg, wfile, received, parsed>>
    /\ UNCHANGED <<engineVars, escapeVars, schemaVars, pairVars>>

\* defer wg.Done(): a negative counter panics
WgDone(w) ==
    /\ Running
    /\ wpc[w] = "deferred"
    /\ wg' = wg - 1
    /\ wpc' = [wpc EXCEPT ![w] = "done"]
    /\ mainPc' = IF wg - 1 < 0 THEN "panic" ELSE mainPc
    /\ UNCHANGED <<args, numWorkers, jobsBuffer, loopI, sent, jobsChan, chanClosed,
                   wfile, received, parsed>>
    /\ UNCHANGED <<engineVars, escapeVars, schemaVars, pairVars>>

NextPool ==
    \/ StartWorker
    \/ WgAdd
    \/ WorkersStarted
    \/ SendBuffered
    \/ AllSent
    \/ CloseChan
    \/ WaitReturns
    \/ \E w \in Workers : SendDirect(w)
    \/ \E w \in Workers : Receive(w)
    \/ \E w \in Workers : Parse(w)
    \/ \E w \in Workers : RangeEnds(w)
    \/ \E w \in Workers : WgDone(w)

\* main on every command line of at most MaxFiles file names, with
\* num_workers in 0..MaxWorkers and jobs_buffer_size in 0..MaxBuffer.
SpecPool == InitPool /\ [][NextPool]_vars

\* C10: every file name sent is received by exactly one worker, once, and
\* when main returns NewDocumentFromXML was called once for each file name:
\* none is skipped and none is parsed twice.
C10_EachFileParsedOnce ==
    /\ \A k \in 1..Len(args) :
          /\ Len(received[k]) <= 1
          /\ parsed[k] <= Len(received[k])
          /\ k <= sent => Len(received[k]) + Count(jobsChan, k) = 1
          /\ k > sent => received[k] = <<>>
          /\ parsed[k] + Cardinality({w \in Workers : wfile[w] = k}) = Len(received[k])
    /\ mainPc = "exit" => \A k \in 1..Len(args) : Len(received[k]) = 1 /\ parsed[k] = 1

\* main returned after two workers shared three or more files.
C10_Witness ==
    /\ mainPc = "exit"
    /\ Len(args) >= 3
    /\ \E j, k \in 1..Len(args) : received[j] # <<>> /\ received[k] # <<>>
                                   /\ received[j] # received[k]

\* C11: the counter of the WaitGroup is never negative (wg.Done never panics,
\* although each worker is started before its wg.Add(1)), and when main has
\* returned from wg.Wait every file name of the command line was sent, was
\* received by a worker, and the worker's NewDocumentFromXML call for it has
\* returned: no file name is in the channel or in a worker's hands, and every
\* worker has left its range loop and called wg.Done.
C11_WaitCoversEveryFile ==
    /\ wg >= 0
    /\ mainPc # "panic"
    /\ mainPc = "exit" =>
          /\ sent = Len(args)
          /\ jobsChan = <<>>
          /\ \A k \in 1..Len(args) : received[k] # <<>> /\ parsed[k] = Len(received[k])
          /\ \A w \in Workers : wfile[w] = 0 /\ wpc[w] = "done"

\* main returned from wg.Wait on an unbuffered channel after as many files
\* as the bound allows, with more than one worker.
C11_Witness ==
    /\ mainPc = "exit"
    /\ Len(args) = MaxFiles
    /\ jobsBuffer = 0
    /\ numWorkers >= 1

\* The processFile goroutines main has started so far.
Started == {w \in DOMAIN wpc : wpc[w] # "unstarted"}

\* The goroutines that are inside a NewDocumentFromXML call.
Parsing == {w \in DOMAIN wpc : wpc[w] = "parse"}

\* C12: main starts as many processFile goroutines as the num_workers flag
\* says (never more at any time, exactly that many once the loop that starts
\* them is over), so at most num_workers files are being parsed at a time.
C12_WorkersEqualFlag ==
    /\ Cardinality(Started) <= numWorkers
    /\ mainPc \in {"send", "close", "wait", "exit"} => Cardinality(Started) = numWorkers
    /\ Cardinality(Parsing) <= numWorkers

\* The steps of the main goroutine (an unbuffered send is a step of main
\* and of the worker that receives).
MainStep ==
    \/ StartWorker
    \/ WgAdd
    \/ WorkersStarted
    \/ SendBuffered
    \/ AllSent
    \/ CloseChan
    \/ WaitReturns
    \/ \E w \in Workers : SendDirect(w)

\* The steps of the processFile goroutine with index w.
WorkerStep(w) ==
    /\ w \in Workers
    /\ Receive(w) \/ Parse(w) \/ RangeEnds(w) \/ WgDone(w)

\* The command lines of the fair runs: the file names are all the same one
\* (main and processFile never look at a name, only the parser does).
InitPoolFair ==
    /\ InitPool
    /\ args \in SeqsUpTo({"a.ofx"}, MaxFiles)

\* The worker pool under a fair scheduler: a goroutine that can run is run
\* eventually, and a NewDocumentFromXML call returns (Parse is a step).
SpecPoolFair ==
    /\ InitPoolFair
    /\ [][NextPool]_vars
    /\ WF_vars(MainStep)
    /\ \A w \in 0..MaxWorkers : WF_vars(WorkerStep(w))

\* C13: under fair scheduling, with parse calls that return, the pool
\* terminates for every file list (empty or longer than the buffer), every
\* jobs_buffer_size >= 0 and every num_workers >= 0: main does not stay
\* blocked in a channel send, every worker leaves its range loop and calls
\* wg.Done, and main returns.
C13_PoolTerminates ==
    /\ (mainPc = "send") ~> (mainPc = "close")
    /\ <>(\A w \in DOMAIN wpc : wpc[w] = "done")
    /\ <>(mainPc = "exit")

\* main returned although the list was longer than the buffer of a
\* buffered channel.
C13_Witness ==
    /\ mainPc = "exit"
    /\ jobsBuffer >= 1
    /\ Len(args) > jobsBuffer
    /\ \A w \in DOMAIN wpc : wpc[w] = "done"

-----------------------------------------------------------------------------
(* Two calls of NewDocumentFromXML on the same file, as two processFile    *)
(* goroutines make them.  Everything a call touches is a local variable of *)
(* the function (the var block and the decoder): inv[i] holds the locals   *)
(* of call i.  Both decoders return the same tokens, those of the file,    *)
(* which consumed holds here from the start; a stack entry of either call  *)
(* is the position of the token it points to.                              *)

MaxPair == 4

Calls == {1, 2}

\* The locals of a call that has just entered the loop.
NewCall ==
    [pc |-> "loop", pos |-> 0, tagStack |-> <<>>, lastTagIdx |-> -1,
     endMarker |-> FALSE, cleanXML |-> <<>>, retDoc |-> <<>>, retErr |-> "nil"]

\* A variant of MarkerOf for an endMarker that is not a local of the call:
\* every call reads the flag of the first one.
MarkerShared(i) == inv[1].endMarker

\* endMarker, a local variable of the call.
MarkerOf(i) == inv[i].endMarker

\* The token decoder.RawToken() returns next to call i.
NextToken(i) == consumed[inv[i].pos + 1]

HasToken(i) == inv[i].pc = "loop" /\ inv[i].pos < Len(consumed)

PairInputs == {<<OFXStart>> \o s : s \in SeqsUpTo(Tokens, MaxPair - 1)}

InitPair ==
    /\ IdleEscape
    /\ IdleSchema
    /\ IdlePool
    /\ file = <<"bytes", Marker>>
    /\ data = Marker
    /\ xmlIndex = 0
    /\ pc = "idle"
    /\ consumed \in PairInputs
    /\ tagStack = <<>>
    /\ lastTagIdx = -1
    /\ endMarker = FALSE
    /\ cleanXML = <<>>
    /\ closed = <<>>
    /\ retDoc = <<>>
    /\ retErr = "nil"
    /\ limit = MaxPair
    /\ mode = "any"
    /\ inv = [i \in Calls |-> NewCall]
    /\ inputErr \in BOOLEAN

\* case xml.StartElement, in call i
CallStartElement(i) ==
    /\ HasToken(i)
    /\ Kind(NextToken(i)) = "start"
    /\ LET s     == inv[i]
           close == ShouldCloseBeforeStart(MarkerOf(i), s.lastTagIdx)
           top   == s.tagStack[s.lastTagIdx + 1]
           buf1  == IF close THEN Append(s.cleanXML, writeEndTag(NameAt(top)))
                    ELSE s.cleanXML
           idx1  == IF close THEN s.lastTagIdx - 1 ELSE s.lastTagIdx
           idx2  == idx1 + 1
       IN  inv' = [inv EXCEPT ![i] =
               IF idx2 >= StackCap
               THEN [s EXCEPT !.pos = s.pos + 1, !.endMarker = IF close THEN FALSE ELSE @,
                              !.lastTagIdx = idx2, !.cleanXML = buf1,
                              !.pc = "returned", !.retErr = "panic"]
               ELSE [s EXCEPT !.pos = s.pos + 1, !.endMarker = IF close THEN FALSE ELSE @,
                              !.lastTagIdx = idx2,
                              !.tagStack = StackPut(s.tagStack, idx2, s.pos + 1),
                              !.cleanXML = Append(buf1, writeStartTag(NextToken(i)))]]
    /\ UNCHANGED <<engineVars, escapeVars, schemaVars, poolVars, inputErr>>

\* case xml.CharData, in call i
CallCharData(i) ==
    /\ HasToken(i)
    /\ Kind(NextToken(i)) = "text"
    /\ LET s == inv[i]
           cleanData == escapeString(TrimSpace(Data(NextToken(i))))
       IN  inv' = [inv EXCEPT ![i] =
               IF cleanData = <<>>
               THEN [s EXCEPT !.pos = s.pos + 1]
               ELSE [s EXCEPT !.pos = s.pos + 1,
                              !.cleanXML = Append(s.cleanXML, writeText(cleanData)),
                              !.endMarker = TRUE]]
    /\ UNCHANGED <<engineVars, escapeVars, schemaVars, poolVars, inputErr>>

\* case xml.EndElement, in call i
CallEndElement(i) ==
    /\ HasToken(i)
    /\ Kind(NextToken(i)) = "end"
    /\ LET s == inv[i]
           r == CloseUntilMatch(s.tagStack, s.lastTagIdx, Name(NextToken(i)), MarkerOf(i))
       IN  inv' = [inv EXCEPT ![i] =
               [s EXCEPT !.pos = s.pos + 1,
                         !.cleanXML = s.cleanXML \o EndTagsOf(r.popped),
                         !.lastTagIdx = r.idx,
                         !.endMarker = r.marker]]
    /\ UNCHANGED <<engineVars, escapeVars, schemaVars, poolVars, inputErr>>

\* decoder.RawToken() returns io.EOF to call i: break
CallEndOfInput(i) ==
    /\ inv[i].pc = "loop"
    /\ inv[i].pos = Len(consumed)
    /\ ~inputErr
    /\ inv' = [inv EXCEPT ![i].pc = "unmarshal"]
    /\ UNCHANGED <<engineVars, escapeVars, schemaVars, poolVars, inputErr>>

\* decoder.RawToken() returns another error to call i: return nil, err
CallTokenError(i) ==
    /\ inv[i].pc = "loop"
    /\ inv[i].pos = Len(consumed)
    /\ inputErr
    /\ inv' = [inv EXCEPT ![i].pc = "returned", ![i].retErr = "token"]
    /\ UNCHANGED <<engineVars, escapeVars, schemaVars, poolVars, inputErr>>

\* err = xml.Unmarshal(cleanXML.Bytes(), document), in call i
CallUnmarshal(i) ==
    /\ inv[i].pc = "unmarshal"
    /\ LET e == UnmarshalErr(inv[i].cleanXML)
       IN  inv' = [inv EXCEPT ![i].pc = "returned",
                              ![i].retErr = e,
                              ![i].retDoc = IF e = "nil" THEN TheDocument ELSE <<>>]
    /\ UNCHANGED <<engineVars, escapeVars, schemaVars, poolVars, inputErr>>

NextPair ==
    \/ \E i \in Calls : CallStartElement(i)
    \/ \E i \in Calls : CallCharData(i)
    \/ \E i \in Calls : CallEndElement(i)
    \/ \E i \in Calls : CallEndOfInput(i)
    \/ \E i \in Calls : CallTokenError(i)
    \/ \E i \in Calls : CallUnmarshal(i)

\* Two calls on every file of at most MaxPair tokens, in every interleaving.
SpecPair == InitPair /\ [][NextPair]_vars

-----------------------------------------------------------------------------
(* The three cases of the loop, step by step. *)

\* The step reads one token of the given kind and the loop goes on.
Reads(kind) ==
    /\ pc = "loop"
    /\ pc' = "loop"
    /\ Len(consumed') = Len(consumed) + 1
    /\ Kind(Last(consumed')) = kind

\* C15: on a start tag, when the flag is set and the stack is not empty
\* (a stack holding only the root included), the loop writes the closing tag
\* of the top of the stack, pops it, clears the flag, and then pushes the
\* new element and writes its opening tag; otherwise it only pushes the
\* element and writes its opening tag.
C15_StartClosesPending ==
    [][ Reads("start") =>
          IF endMarker /\ lastTagIdx > -1
          THEN /\ cleanXML' = cleanXML \o
                      << writeEndTag(NameAt(tagStack[lastTagIdx + 1])),
                         writeStartTag(Last(consumed')) >>
               /\ lastTagIdx' = lastTagIdx
               /\ endMarker' = FALSE
               /\ tagStack'[lastTagIdx' + 1] = Len(consumed')
          ELSE /\ cleanXML' = Append(cleanXML, writeStartTag(Last(consumed')))
               /\ lastTagIdx' = lastTagIdx + 1
               /\ endMarker' = endMarker
               /\ tagStack'[lastTagIdx' + 1] = Len(consumed') ]_vars

\* C16: whenever the flag is set, the item written last to the clean buffer
\* is character data and the stack is not empty, so that the character data
\* belongs to the element on top of the stack; the flag is never set when an
\* opening or a closing tag was written last.
C16_MarkerMeansTextOfTop ==
    endMarker =>
        /\ cleanXML # <<>>
        /\ Kind(Last(cleanXML)) = "text"
        /\ lastTagIdx > -1

\* The slots (1-based) of the open elements named n.
OpenNamed(n) == {k \in 1..(lastTagIdx + 1) : NameAt(tagStack[k]) = n}

Max(S) == CHOOSE x \in S : \A y \in S : y <= x

\* The closing tags of the open elements from the top down to slot lo.
ClosingTagsDownTo(lo) ==
    [j \in 1..(lastTagIdx + 2 - lo) |-> writeEndTag(NameAt(tagStack[lastTagIdx + 2 - j]))]

\* C17: on an end tag named E the loop pops the stack, writing a closing tag
\* for each popped name, until the popped name is E or the stack is empty.
\* With a match the flag is cleared and the elements below the matched one
\* stay on the stack; with no open element named E the token is no error,
\* every open element is closed and popped and the flag is left as it was
\* (on an empty stack nothing is written).
C17_EndClosesUntilMatch ==
    [][ Reads("end") =>
          LET E == Name(Last(consumed'))
          IN  /\ retErr' = "nil"
              /\ IF OpenNamed(E) # {}
                 THEN LET m == Max(OpenNamed(E))
                      IN  /\ cleanXML' = cleanXML \o ClosingTagsDownTo(m)
                          /\ lastTagIdx' = m - 2
                          /\ endMarker' = FALSE
                          /\ SubSeq(tagStack', 1, m - 1) = SubSeq(tagStack, 1, m - 1)
                 ELSE /\ cleanXML' = cleanXML \o ClosingTagsDownTo(1)
                      /\ lastTagIdx' = -1
                      /\ endMarker' = endMarker
                      /\ (lastTagIdx = -1 => cleanXML' = cleanXML) ]_vars

\* An end tag has just closed two or more elements up to its match, with an
\* element left open below, clearing a flag that was set.
C17_Witness ==
    /\ pc = "loop"
    /\ Len(consumed) >= 4
    /\ Kind(Last(consumed)) = "end"
    /\ NonBlank(consumed[Len(consumed) - 1])
    /\ lastTagIdx > -1
    /\ ~endMarker
    /\ Len(cleanXML) >= 2
    /\ Kind(cleanXML[Len(cleanXML) - 1]) = "end"
    /\ Kind(Last(cleanXML)) = "end"
    /\ Name(Last(cleanXML)) = Name(Last(consumed))

\* C18: character data that is empty after trimming white space changes
\* nothing: tag stack, stack index, flag and clean buffer stay as they were.
\* Character data that is not empty after trimming appends its escaped text
\* to the buffer and sets the flag, and leaves the stack as it was.
C18_CharDataFrame ==
    [][ Reads("text") =>
          LET d == TrimSpace(Data(Last(consumed')))
          IN  IF d = <<>>
              THEN UNCHANGED <<tagStack, lastTagIdx, endMarker, cleanXML>>
              ELSE /\ cleanXML' = Append(cleanXML, <<"text", escapeString(d)>>)
                   /\ endMarker' = TRUE
                   /\ UNCHANGED <<tagStack, lastTagIdx>> ]_vars

\* Blank character data was read right after character data that was
\* written with an escaped "&": the flag and the buffer are as the first
\* left them.
C18_Witness ==
    /\ pc = "loop"
    /\ Len(consumed) >= 3
    /\ NonBlank(consumed[Len(consumed) - 1])
    /\ Kind(Last(consumed)) = "text"
    /\ ~NonBlank(Last(consumed))
    /\ endMarker
    /\ Last(cleanXML) = <<"text", <<120>> \o esc_amp>>

\* The names of the open elements, bottom to top: tagStack[0..lastTagIdx].
OpenNames == [k \in 1..(lastTagIdx + 1) |-> NameAt(tagStack[k])]

\* C19: the clean buffer is strictly nested at all times: every closing tag
\* written names the nearest opening tag before it that is not closed yet,
\* and the opening tags of the buffer that have no closing tag yet are the
\* contents of the tag stack, tagStack[0..lastTagIdx], bottom to top.
C19_BufferNestedAsStack ==
    retErr # "panic" =>
        /\ Nesting(cleanXML) # <<"!">>
        /\ Nesting(cleanXML) = OpenNames

\* Closing tags were written, by a start tag and by an end tag, and two
\* elements of different names are open.
C19_Witness ==
    /\ pc = "loop"
    /\ Cardinality(EndItems(cleanXML)) >= 2
    /\ lastTagIdx >= 1
    /\ NameAt(tagStack[1]) # NameAt(tagStack[2])
    /\ \E k \in 2..(Len(consumed) - 1) :
          NonBlank(consumed[k]) /\ Kind(consumed[k + 1]) = "start" /\ Len(closed) >= 1

\* The attributes that have a name (the decoder gives every attribute it
\* returns one), each with its value as a reader of the markup sees it.
RECURSIVE NamedAttrs(_)
NamedAttrs(at) ==
    IF at = <<>> THEN <<>>
    ELSE (IF Head(at)[1] = "" THEN <<>> ELSE << Head(at) >>) \o NamedAttrs(Tail(at))

RECURSIVE DecodedAttrs(_)
DecodedAttrs(at) ==
    IF at = <<>> THEN <<>>
    ELSE << <<Head(at)[1], Unescape(Head(at)[2])>> >> \o DecodedAttrs(Tail(at))

\* The content of the input: its start tags and its non-blank character
\* data (white space around it trimmed), in order.
RECURSIVE InputContent(_)
InputContent(toks) ==
    IF toks = <<>> THEN <<>>
    ELSE LET t == Head(toks)
         IN  (IF Kind(t) = "start"
              THEN << <<"start", Name(t), Space(t), NamedAttrs(Attrs(t))>> >>
              ELSE IF NonBlank(t) THEN << <<"text", TrimSpace(Data(t))>> >>
              ELSE <<>>)
             \o InputContent(Tail(toks))

\* The content of the clean buffer as a reader of the markup sees it: its
\* opening tags and its character data, references decoded, in order.
RECURSIVE BufferContent(_)
BufferContent(buf) ==
    IF buf = <<>> THEN <<>>
    ELSE LET it == Head(buf)
         IN  (IF Kind(it) = "start"
              THEN << <<"start", Name(it), Unescape(Space(it)), DecodedAttrs(Attrs(it))>> >>
              ELSE IF Kind(it) = "text" THEN << <<"text", Unescape(Data(it))>> >>
              ELSE <<>>)
             \o BufferContent(Tail(buf))

\* C20: the loop neither drops nor reorders content: when it has finished
\* without an error, the opening tags and the character data of the clean
\* buffer are, item for item and in the same order, the start tags and the
\* non-blank character data of the tokens read, and no character data of
\* the buffer is blank; only closing tags are added or removed.
C20_ContentKeptInOrder ==
    LoopFinished =>
        /\ BufferContent(cleanXML) = InputContent(consumed)
        /\ \A k \in 1..Len(cleanXML) :
              Kind(cleanXML[k]) = "text" => TrimSpace(Data(cleanXML[k])) # <<>>

\* The loop finished on an input with an element that has a name space and
\* an attribute, with character data, blank and non-blank, with an end tag
\* that was dropped or a closing tag that was added.
C20_Witness ==
    /\ LoopFinished
    /\ \E k \in 1..Len(consumed) : consumed[k] = BStart
    /\ \E k \in 1..Len(consumed) : NonBlank(consumed[k])
    /\ \E k \in 1..Len(consumed) : Kind(consumed[k]) = "text" /\ ~NonBlank(consumed[k])
    /\ TagShape(cleanXML) # TagShape(consumed)

=============================================================================
